---- MODULE Spec2Model ----
(***************************************************************************)
(* Model of ptvsd/multiproc.py: the subprocess handshake between the root  *)
(* listener, the announcement queue and its consumer; the child notifier   *)
(* (notify_root); and the command line patcher (patch_args).               *)
(***************************************************************************)
EXTENDS Integers, Sequences, FiniteSets, TLC

(* ------------------------------ bounds --------------------------------- *)

\* Number of descendant process ids that can announce themselves.
NumDesc == 3

\* How many task_done() calls beyond one per entry the consumer may make.
MaxSurplus == 1

\* How often the entry of one announcement may be handed out before the
\* record of it stops counting.
MaxGets == 2

\* Longest command line given to patch_args, not counting the binary.
MaxArgs == 4

\* How many times listen_for_subprocesses is called in one process.
MaxListens == 2

\* How many calls of stop_listening_for_subprocesses in a row are told apart.
MaxStops == 2

(* ------------------------- program constants --------------------------- *)

\* os.getpid() in the root process.
RootPid == 1000

\* The port that create_server('localhost', 0) bound for the listener.
ListenerPort == 5555

\* The value of a Python None in a place that otherwise holds a string.
None == "None"

Desc == 1 .. NumDesc

\* The 'SubprocessListener' threads, in the order they are started.
Threads == 1 .. MaxListens

\* Values that the global root_start_request takes once debugging started.
StartRequests == {"launch"}

VARIABLES
    root_start_request,  \* module global, line 52
    subprocess_queue,    \* items of queue.Queue(), oldest first
    unfinished_tasks,    \* queue.Queue.unfinished_tasks
    pc,                  \* per connection: position of its channel thread
    request,             \* per connection: request.arguments as received
    response,            \* per connection: the response dict's incomingConnection
    reply,               \* per connection: <<>> or <<value sent back>>
    gets,                \* per connection: times its entry was handed out by get()
    doneCalls,           \* per connection: task_done() calls spent on its entry
    putOrder,            \* entries put and not yet handed out, in put order
    os_getpid,           \* os.getpid() of the process the code runs in
    options_subprocess_notify,   \* options.subprocess_notify: <<>> or <<port>>
    subprocess_listener_socket,  \* module global, line 30: <<>> or <<bound port>>
    heap,                \* patch_args: the caller's list and the copy of line 178
    args,                \* patch_args: which list of the heap `args` refers to
    i,                   \* patch_args: loop index, counted from 1
    expect_value,        \* patch_args: line 192
    patch_pc,            \* patch_args: position in the function
    roles,               \* patch_args: what the scan took each token for
    options_subprocess_of,  \* options.subprocess_of: <<>> or <<parent's pid>>
    notify_pc,           \* notify_root: position in the function
    notify_port,         \* notify_root: its parameter `port`
    sent_request,        \* notify_root: <<>> or <<arguments of the request sent>>
    notify_response,     \* notify_root: <<>> or <<incomingConnection received>>
    global_debugger,     \* whether get_global_debugger() returns a debugger
    debugger,            \* notify_root: whether its local `debugger` is one
    polled,              \* notify_root: whether it called get_global_debugger()
    ready_to_run,        \* debugger.ready_to_run
    exit_status,         \* <<>> or <<status passed to sys.exit>>
    stderr_report,       \* whether the failure was printed to sys.__stderr__
    failure,             \* what went wrong on the connection, if anything
    incoming_response,   \* <<>> or <<incomingConnection of the response that arrived>>
    connection_lost,     \* whether the connection to the root dropped
    sockets_made,        \* how many listener sockets create_server() has made
    shut,                \* ports of the listener sockets that were shut down
    listener_pc,         \* per listener thread: position in _subprocess_listener
    listener_sock,       \* per listener thread: port of the socket it accepts on
    stop_calls,          \* stop_listening_for_subprocesses calls since the last listen
    stop_raised,         \* whether stop_listening_for_subprocesses raised
    blocked_at_stop      \* connections whose handler was in join() at the last stop

handshakeVars == <<root_start_request, subprocess_queue, unfinished_tasks, pc,
                   request, response, reply, gets, doneCalls, putOrder>>

listenerVars == <<sockets_made, shut, listener_pc, listener_sock, stop_calls,
                  stop_raised, blocked_at_stop>>

processVars == <<os_getpid, options_subprocess_notify, subprocess_listener_socket,
                 options_subprocess_of, listenerVars>>

patchVars == <<heap, args, i, expect_value, patch_pc, roles>>

notifyVars == <<notify_pc, notify_port, sent_request, notify_response,
                global_debugger, debugger, polled, ready_to_run, exit_status,
                stderr_report, failure, incoming_response, connection_lost>>

vars == <<handshakeVars, processVars, patchVars, notifyVars>>

\* What the handshake leaves alone.
aside == <<processVars, patchVars, notifyVars>>

(* ----------------------- the announcement request ---------------------- *)

ParentOf(d) == IF d = 1 THEN RootPid ELSE d - 1

PortOf(d) == 5000 + d

\* What notify_root sends (lines 141-145).
PlainRequest(d) ==
    [parentProcessId |-> ParentOf(d), processId |-> d, port |-> PortOf(d)]

\* A request without a port, from a sender that also fills in the root's
\* fields.
SpoofedRequest(d) ==
    [parentProcessId |-> ParentOf(d), processId |-> d, port |-> 0,
     rootProcessId |-> d, rootStartRequest |-> "spoofed"]

Requests(d) == {PlainRequest(d), SpoofedRequest(d)}

NoRequest == [processId |-> 0]

(* --------------------------- the root handler -------------------------- *)

\* dict(request.arguments) followed by update() without overwriting.
ArgumentsKeepSender(req) ==
    [f \in DOMAIN req \cup {"rootProcessId", "rootStartRequest"} |->
        IF f \in DOMAIN req THEN req[f]
        ELSE IF f = "rootProcessId" THEN os_getpid
        ELSE root_start_request]

\* arguments = dict(request.arguments); arguments.update({...})
Arguments(req) ==
    [f \in DOMAIN req \cup {"rootProcessId", "rootStartRequest"} |->
        IF f = "rootProcessId" THEN os_getpid
        ELSE IF f = "rootStartRequest" THEN root_start_request
        ELSE req[f]]

\* Some other part of the process assigns the global root_start_request.
SetRootStartRequest ==
    /\ \E r \in StartRequests :
          /\ r # root_start_request
          /\ root_start_request' = r
    /\ UNCHANGED <<subprocess_queue, unfinished_tasks, pc, request, response,
                   reply, gets, doneCalls, putOrder>>
    /\ UNCHANGED aside

\* _handle_subprocess starts the channel of an accepted connection, and the
\* channel reads the descendant's request.
_handle_subprocess(d) ==
    /\ pc[d] = "idle"
    /\ \E req \in Requests(d) : request' = [request EXCEPT ![d] = req]
    /\ pc' = [pc EXCEPT ![d] = "accepted"]
    /\ UNCHANGED <<root_start_request, subprocess_queue, unfinished_tasks,
                   response, reply, gets, doneCalls, putOrder>>

\* A listener thread is blocked in accept() on a socket that is open.
Accepting(t) == listener_pc[t] = "accepting" /\ listener_sock[t] \notin shut

\* One round of the loop of _subprocess_listener while nobody stops the
\* listener: accept() returns a connection, _handle_subprocess serves it,
\* and the thread is back in accept().
Accept(d) ==
    /\ subprocess_listener_socket # <<>>
    /\ \E t \in Threads : Accepting(t)
    /\ _handle_subprocess(d)
    /\ UNCHANGED aside

\* ptvsd_subprocess_request up to and including subprocess_queue.put().
ptvsd_subprocess_request_put(d) ==
    /\ pc[d] = "accepted"
    /\ response' = [response EXCEPT ![d] = FALSE]
    /\ subprocess_queue' = Append(subprocess_queue,
                                  [arguments |-> Arguments(request[d]),
                                   response |-> d])
    /\ unfinished_tasks' = unfinished_tasks + 1
    /\ putOrder' = Append(putOrder, d)
    /\ request' = [request EXCEPT ![d] = NoRequest]
    /\ pc' = [pc EXCEPT ![d] = "joining"]
    /\ UNCHANGED <<root_start_request, reply, gets, doneCalls>>
    /\ UNCHANGED aside

\* The handler without the subprocess_queue.join() of line 116.
ptvsd_subprocess_request_nojoin(d) ==
    /\ pc[d] = "joining"
    /\ reply' = [reply EXCEPT ![d] = <<response[d]>>]
    /\ pc' = [pc EXCEPT ![d] = "replied"]
    /\ UNCHANGED <<root_start_request, subprocess_queue, unfinished_tasks,
                   request, response, gets, doneCalls, putOrder>>
    /\ UNCHANGED aside

\* The handler returning a new {'incomingConnection': False} instead of the
\* dict it put on the queue.
ptvsd_subprocess_request_fresh(d) ==
    /\ pc[d] = "joining"
    /\ unfinished_tasks = 0
    /\ reply' = [reply EXCEPT ![d] = <<FALSE>>]
    /\ pc' = [pc EXCEPT ![d] = "replied"]
    /\ UNCHANGED <<root_start_request, subprocess_queue, unfinished_tasks,
                   request, response, gets, doneCalls, putOrder>>
    /\ UNCHANGED aside

\* subprocess_queue.join() returns once unfinished_tasks is 0; the handler
\* returns the response dict and the channel sends it as the reply.
ptvsd_subprocess_request_join(d) ==
    /\ pc[d] = "joining"
    /\ unfinished_tasks = 0
    /\ reply' = [reply EXCEPT ![d] = <<response[d]>>]
    /\ pc' = [pc EXCEPT ![d] = "replied"]
    /\ UNCHANGED <<root_start_request, subprocess_queue, unfinished_tasks,
                   request, response, gets, doneCalls, putOrder>>
    /\ UNCHANGED aside

\* The descendant's connection ends after a handshake the consumer completed;
\* its process id becomes free for a later descendant.
Close(d) ==
    /\ pc[d] = "replied"
    /\ gets[d] = 1
    /\ doneCalls[d] = 1
    /\ pc' = [pc EXCEPT ![d] = "idle"]
    /\ response' = [response EXCEPT ![d] = FALSE]
    /\ reply' = [reply EXCEPT ![d] = <<>>]
    /\ gets' = [gets EXCEPT ![d] = 0]
    /\ doneCalls' = [doneCalls EXCEPT ![d] = 0]
    /\ UNCHANGED <<root_start_request, subprocess_queue, unfinished_tasks,
                   request, putOrder>>
    /\ UNCHANGED aside

(* ----------------------- the queue and its consumer -------------------- *)

\* get() of a queue that hands out the newest entry (queue.LifoQueue).
GetNewest ==
    /\ subprocess_queue # <<>>
    /\ LET n    == Len(subprocess_queue)
           item == subprocess_queue[n]
       IN  /\ gets[item.response] < MaxGets
           /\ subprocess_queue' = SubSeq(subprocess_queue, 1, n - 1)
           /\ gets' = [gets EXCEPT ![item.response] = @ + 1]
           /\ putOrder' = Tail(putOrder)
    /\ UNCHANGED <<root_start_request, unfinished_tasks, pc, request, response,
                   reply, doneCalls>>
    /\ UNCHANGED aside

\* subprocess_queue.get(): queue.Queue() hands out the oldest entry.
Get ==
    /\ subprocess_queue # <<>>
    /\ LET item == Head(subprocess_queue)
       IN  /\ gets[item.response] < MaxGets
           /\ subprocess_queue' = Tail(subprocess_queue)
           /\ gets' = [gets EXCEPT ![item.response] = @ + 1]
           /\ putOrder' = Tail(putOrder)
    /\ UNCHANGED <<root_start_request, unfinished_tasks, pc, request, response,
                   reply, doneCalls>>
    /\ UNCHANGED aside

\* The consumer sets incomingConnection in the response dict of an entry it
\* holds and has not yet marked done.
Decide(d) ==
    /\ gets[d] >= 1
    /\ doneCalls[d] = 0
    /\ response' = [response EXCEPT ![d] = ~ @]
    /\ UNCHANGED <<root_start_request, subprocess_queue, unfinished_tasks, pc,
                   request, reply, gets, doneCalls, putOrder>>
    /\ UNCHANGED aside

\* queue.Queue.task_done(): one unfinished task less; ValueError, and no
\* change, when there is none left.
task_done ==
    unfinished_tasks' = IF unfinished_tasks > 0 THEN unfinished_tasks - 1
                        ELSE unfinished_tasks

\* The consumer's task_done() for an entry it got.
TaskDone(d) ==
    /\ gets[d] >= 1
    /\ doneCalls[d] = 0
    /\ task_done
    /\ doneCalls' = [doneCalls EXCEPT ![d] = 1]
    /\ UNCHANGED <<root_start_request, subprocess_queue, pc, request, response,
                   reply, gets, putOrder>>
    /\ UNCHANGED aside

\* task_done() calls made beyond the first for an entry.
RECURSIVE SurplusUpTo(_)
SurplusUpTo(n) ==
    IF n = 0 THEN 0
    ELSE SurplusUpTo(n - 1) + (IF doneCalls[n] > 1 THEN doneCalls[n] - 1 ELSE 0)

SurplusCalls == SurplusUpTo(NumDesc)

\* A consumer that breaks the contract calls task_done() again for an entry.
SurplusTaskDone(d) ==
    /\ gets[d] >= 1
    /\ doneCalls[d] >= 1
    /\ SurplusCalls < MaxSurplus
    /\ task_done
    /\ doneCalls' = [doneCalls EXCEPT ![d] = @ + 1]
    /\ UNCHANGED <<root_start_request, subprocess_queue, pc, request, response,
                   reply, gets, putOrder>>
    /\ UNCHANGED aside

(* ------------------------------ patch_args ----------------------------- *)

\* str.startswith and str.endswith.
StartsWith(s, p) == Len(s) >= Len(p) /\ SubSeq(s, 1, Len(p)) = p

EndsWith(s, p) == Len(s) >= Len(p) /\ SubSeq(s, Len(s) - Len(p) + 1, Len(s)) = p

\* str() of a non-negative int.
RECURSIVE IntToStr(_)
IntToStr(n) ==
    IF n < 10 THEN SubSeq("0123456789", n + 1, n + 1)
    ELSE IntToStr(n \div 10) \o SubSeq("0123456789", (n % 10) + 1, (n % 10) + 1)

\* str() of a value that is None (<<>>) or an int (<<n>>).
PyStr(v) == IF v = <<>> THEN "None" ELSE IntToStr(v[1])

\* Python's `a or b` on values that are None or an int.
PyOr(a, b) == IF a # <<>> /\ a[1] # 0 THEN a ELSE b

subprocess_listener_port == subprocess_listener_socket

\* re.split(r'[QWX]', arg, maxsplit=1)
re_split(arg) ==
    LET hits == {k \in 1 .. Len(arg) : SubSeq(arg, k, k) \in {"Q", "W", "X"}}
    IN  IF hits = {} THEN <<arg>>
        ELSE LET k == CHOOSE h \in hits : \A g \in hits : h <= g
             IN  <<SubSeq(arg, 1, k - 1), SubSeq(arg, k + 1, Len(arg))>>

\* Line 226 without the test of len(split).
ExpectValueNoLen(arg) ==
    LET split == re_split(arg)
    IN  split[Len(split)] # ""

\* expect_value = (len(split) > 1 and split[-1] != '')
ExpectValue(arg) ==
    LET split == re_split(arg)
    IN  Len(split) > 1 /\ split[Len(split)] # ""

\* Lines 233-239 with the `not` of line 238 lost.
UnsupportedTargetLostNot(tok) == ~ StartsWith(tok, "-") /\ EndsWith(tok, ".py")

\* A filename target that is not a .py file (lines 233-239).
UnsupportedTarget(tok) == ~ StartsWith(tok, "-") /\ ~ EndsWith(tok, ".py")

\* The list spliced in by lines 243-251.
Injected ==
    <<"-m", "ptvsd",
      "--host", "localhost",
      "--port", "0",
      "--wait",
      "--multiprocess",
      "--subprocess-of", IntToStr(os_getpid),
      "--subprocess-notify",
      PyStr(PyOr(options_subprocess_notify, subprocess_listener_port))>>

\* args[k:k+1] = ins, with k counted from 1: the token at k is replaced.
SpliceOver(a, k, ins) == SubSeq(a, 1, k - 1) \o ins \o SubSeq(a, k + 1, Len(a))

\* args[k:k] = ins, with k counted from 1.
Splice(a, k, ins) == SubSeq(a, 1, k - 1) \o ins \o SubSeq(a, k, Len(a))

\* The list that the local name `args` refers to.
Args == heap[args]

\* args = list(args), expect_value = False, and the loop starts.
patch_args_start ==
    /\ patch_pc = "start"
    /\ heap' = [heap EXCEPT !["copy"] = heap["caller"]]
    /\ args' = "copy"
    /\ expect_value' = FALSE
    /\ i' = 1
    /\ patch_pc' = "scan"
    /\ UNCHANGED <<roles, handshakeVars, processVars, notifyVars>>

\* One iteration of the for loop of line 193, or its else clause.
patch_args_scan ==
    /\ patch_pc = "scan"
    /\ IF i > Len(Args)
         THEN \* Didn't find the target.
              /\ patch_pc' = "returned"
              /\ UNCHANGED <<i, expect_value, roles>>
         ELSE LET arg == Args[i]
              IN  IF i = 1
                    THEN /\ i' = i + 1
                         /\ roles' = Append(roles, "binary")
                         /\ UNCHANGED <<expect_value, patch_pc>>
                  ELSE IF arg = "-"
                    THEN /\ patch_pc' = "returned"
                         /\ roles' = Append(roles, "stdin")
                         /\ UNCHANGED <<i, expect_value>>
                  ELSE IF expect_value
                    THEN /\ expect_value' = FALSE
                         /\ i' = i + 1
                         /\ roles' = Append(roles, "value")
                         /\ UNCHANGED patch_pc
                  ELSE IF ~ StartsWith(arg, "-") \/ arg \in {"-c", "-m"}
                    THEN /\ patch_pc' = "target"
                         /\ roles' = Append(roles, "target")
                         /\ UNCHANGED <<i, expect_value>>
                  ELSE IF StartsWith(arg, "--")
                    THEN /\ expect_value' = (arg = "--check-hash-based-pycs")
                         /\ i' = i + 1
                         /\ roles' = Append(roles, "switch")
                         /\ UNCHANGED patch_pc
                  ELSE /\ expect_value' = ExpectValue(arg)
                       /\ i' = i + 1
                       /\ roles' = Append(roles, "switch")
                       /\ UNCHANGED patch_pc
    /\ UNCHANGED <<heap, args, handshakeVars, processVars, notifyVars>>

\* After the break: lines 233-253.
patch_args_target ==
    /\ patch_pc = "target"
    /\ IF UnsupportedTarget(Args[i])
         THEN UNCHANGED heap
         ELSE heap' = [heap EXCEPT ![args] = Splice(Args, i, Injected)]
    /\ patch_pc' = "returned"
    /\ UNCHANGED <<args, i, expect_value, roles, handshakeVars, processVars, notifyVars>>

(* ------------------------------ notify_root ---------------------------- *)

\* create_client() and conn.connect(): the root accepts the connection, or
\* connect() raises and the exception leaves notify_root (lines 128-129).
notify_root_connect ==
    /\ notify_pc = "start"
    /\ \/ /\ notify_pc' = "connected"
          /\ UNCHANGED failure
       \/ /\ notify_pc' = "raised"
          /\ failure' = "connect"
    /\ UNCHANGED <<notify_port, sent_request, notify_response, global_debugger,
                   debugger, polled, ready_to_run, exit_status, stderr_report>>
    /\ UNCHANGED <<incoming_response, connection_lost>>
    /\ UNCHANGED <<handshakeVars, processVars, patchVars>>

\* The channel is started and the 'ptvsd_subprocess' request sent (130-145).
notify_root_send ==
    /\ notify_pc = "connected"
    /\ sent_request' = <<[parentProcessId |-> options_subprocess_of[1],
                          processId |-> os_getpid,
                          port |-> notify_port]>>
    /\ notify_pc' = "waiting"
    /\ UNCHANGED <<notify_port, notify_response, global_debugger, debugger,
                   polled, ready_to_run, exit_status, stderr_report, failure>>
    /\ UNCHANGED <<incoming_response, connection_lost>>
    /\ UNCHANGED <<handshakeVars, processVars, patchVars>>

\* The root's handler returned and its channel sent the response (line 117).
RootReplies ==
    /\ notify_pc = "waiting"
    /\ incoming_response = <<>>
    /\ ~ connection_lost
    /\ \E b \in BOOLEAN : incoming_response' = <<b>>
    /\ UNCHANGED <<notify_pc, notify_port, sent_request, notify_response,
                   global_debugger, debugger, polled, ready_to_run, exit_status,
                   stderr_report, failure, connection_lost>>
    /\ UNCHANGED <<handshakeVars, processVars, patchVars>>

\* The connection to the root drops before the response arrived.
ConnectionLost ==
    /\ notify_pc = "waiting"
    /\ incoming_response = <<>>
    /\ ~ connection_lost
    /\ connection_lost' = TRUE
    /\ UNCHANGED <<notify_pc, notify_port, sent_request, notify_response,
                   global_debugger, debugger, polled, ready_to_run, exit_status,
                   stderr_report, failure, incoming_response>>
    /\ UNCHANGED <<handshakeVars, processVars, patchVars>>

\* request.wait_for_response() blocks, without a timeout, until the response
\* has arrived or the connection dropped; then it returns the response, or
\* raises and the except clause reports it and calls sys.exit(0) (147-152).
notify_root_wait ==
    /\ notify_pc = "waiting"
    /\ incoming_response # <<>> \/ connection_lost
    /\ IF incoming_response # <<>>
         THEN /\ notify_response' = incoming_response
              /\ notify_pc' = "responded"
              /\ UNCHANGED <<exit_status, stderr_report, failure>>
         ELSE /\ failure' = "lost"
              /\ stderr_report' = TRUE
              /\ exit_status' = <<0>>
              /\ notify_pc' = "exited"
              /\ UNCHANGED notify_response
    /\ UNCHANGED <<notify_port, sent_request, global_debugger, debugger, polled,
                   ready_to_run, incoming_response, connection_lost>>
    /\ UNCHANGED <<handshakeVars, processVars, patchVars>>

\* The test of line 154 without its `not`.
notify_root_check_inverted ==
    /\ notify_pc = "responded"
    /\ IF notify_response[1]
         THEN /\ debugger' = global_debugger
              /\ polled' = TRUE
              /\ notify_pc' = "polling"
         ELSE /\ notify_pc' = "done"
              /\ UNCHANGED <<debugger, polled>>
    /\ UNCHANGED <<notify_port, sent_request, notify_response, global_debugger,
                   ready_to_run, exit_status, stderr_report, failure>>
    /\ UNCHANGED <<incoming_response, connection_lost>>
    /\ UNCHANGED <<handshakeVars, processVars, patchVars>>

\* if not response['incomingConnection']: debugger = get_global_debugger()
notify_root_check ==
    /\ notify_pc = "responded"
    /\ IF ~ notify_response[1]
         THEN /\ debugger' = global_debugger
              /\ polled' = TRUE
              /\ notify_pc' = "polling"
         ELSE /\ notify_pc' = "done"
              /\ UNCHANGED <<debugger, polled>>
    /\ UNCHANGED <<notify_port, sent_request, notify_response, global_debugger,
                   ready_to_run, exit_status, stderr_report, failure>>
    /\ UNCHANGED <<incoming_response, connection_lost>>
    /\ UNCHANGED <<handshakeVars, processVars, patchVars>>

\* One test of `while debugger is None`: sleep and ask again, or leave the
\* loop and set debugger.ready_to_run (lines 156-159).
notify_root_poll ==
    /\ notify_pc = "polling"
    /\ IF ~ debugger
         THEN /\ debugger' = global_debugger
              /\ UNCHANGED <<ready_to_run, notify_pc>>
         ELSE /\ ready_to_run' = TRUE
              /\ notify_pc' = "done"
              /\ UNCHANGED debugger
    /\ UNCHANGED <<notify_port, sent_request, notify_response, global_debugger,
                   polled, exit_status, stderr_report, failure>>
    /\ UNCHANGED <<incoming_response, connection_lost>>
    /\ UNCHANGED <<handshakeVars, processVars, patchVars>>

\* pydevd creates the global debugger in another thread.
DebuggerCreated ==
    /\ ~ global_debugger
    /\ global_debugger' = TRUE
    /\ UNCHANGED <<notify_pc, notify_port, sent_request, notify_response,
                   debugger, polled, ready_to_run, exit_status, stderr_report,
                   failure>>
    /\ UNCHANGED <<incoming_response, connection_lost>>
    /\ UNCHANGED <<handshakeVars, processVars, patchVars>>

(* ----------------------------- the listener ---------------------------- *)

\* What the listener functions and threads leave alone.
besides == <<os_getpid, options_subprocess_notify, options_subprocess_of,
             patchVars, notifyVars>>

\* The port that create_server('localhost', 0) binds for the n-th socket.
PortOfSocket(n) == ListenerPort + n - 1

\* listen_for_subprocesses (lines 59-69): the assert, a new socket, a new
\* 'SubprocessListener' thread.
listen_for_subprocesses ==
    /\ subprocess_listener_socket = <<>>
    /\ sockets_made < MaxListens
    /\ sockets_made' = sockets_made + 1
    /\ subprocess_listener_socket' = <<PortOfSocket(sockets_made + 1)>>
    /\ listener_pc' = [listener_pc EXCEPT ![sockets_made + 1] = "check"]
    /\ stop_calls' = 0
    /\ UNCHANGED <<shut, listener_sock, stop_raised, blocked_at_stop>>
    /\ UNCHANGED <<handshakeVars, besides>>

\* stop_listening_for_subprocesses without the try/except of lines 76-79.
stop_listening_for_subprocesses_unguarded ==
    /\ stop_calls < MaxStops
    /\ stop_calls' = stop_calls + 1
    /\ blocked_at_stop' = {d \in Desc : pc[d] = "joining"}
    /\ IF subprocess_listener_socket = <<>>
         THEN UNCHANGED <<subprocess_listener_socket, shut, stop_raised>>
         ELSE \/ /\ shut' = shut \cup {subprocess_listener_socket[1]}
                 /\ subprocess_listener_socket' = <<>>
                 /\ UNCHANGED stop_raised
              \/ /\ stop_raised' = TRUE
                 /\ UNCHANGED <<subprocess_listener_socket, shut>>
    /\ UNCHANGED <<sockets_made, listener_pc, listener_sock>>
    /\ UNCHANGED <<handshakeVars, besides>>

\* stop_listening_for_subprocesses (lines 72-80): nothing without a socket;
\* otherwise shutdown(), which shuts the socket down or raises and is
\* ignored, and the global is set to None.
stop_listening_for_subprocesses ==
    /\ stop_calls < MaxStops
    /\ stop_calls' = stop_calls + 1
    /\ blocked_at_stop' = {d \in Desc : pc[d] = "joining"}
    /\ IF subprocess_listener_socket = <<>>
         THEN UNCHANGED <<subprocess_listener_socket, shut>>
         ELSE /\ \/ shut' = shut \cup {subprocess_listener_socket[1]}
                 \/ shut' = shut
              /\ subprocess_listener_socket' = <<>>
    /\ UNCHANGED <<sockets_made, listener_pc, listener_sock, stop_raised>>
    /\ UNCHANGED <<handshakeVars, besides>>

\* `while subprocess_listener_socket:` (line 92) reads the global.
_subprocess_listener_while(t) ==
    /\ listener_pc[t] = "check"
    /\ listener_pc' = [listener_pc EXCEPT ![t] =
                          IF subprocess_listener_socket # <<>> THEN "call" ELSE "ended"]
    /\ UNCHANGED <<subprocess_listener_socket, sockets_made, shut, listener_sock,
                   stop_calls, stop_raised, blocked_at_stop>>
    /\ UNCHANGED <<handshakeVars, besides>>

\* `subprocess_listener_socket.accept()` (line 94) reads the global again:
\* None has no accept, which raises and ends the loop; a socket is
\* accepted on.
_subprocess_listener_call(t) ==
    /\ listener_pc[t] = "call"
    /\ IF subprocess_listener_socket = <<>>
         THEN /\ listener_pc' = [listener_pc EXCEPT ![t] = "ended"]
              /\ UNCHANGED listener_sock
         ELSE /\ listener_pc' = [listener_pc EXCEPT ![t] = "accepting"]
              /\ listener_sock' = [listener_sock EXCEPT ![t] = subprocess_listener_socket[1]]
    /\ UNCHANGED <<subprocess_listener_socket, sockets_made, shut, stop_calls,
                   stop_raised, blocked_at_stop>>
    /\ UNCHANGED <<handshakeVars, besides>>

\* accept() on a socket that was shut down raises; `except Exception: break`
\* (lines 95-96) ends the loop.
_subprocess_listener_break(t) ==
    /\ listener_pc[t] = "accepting"
    /\ listener_sock[t] \in shut
    /\ listener_pc' = [listener_pc EXCEPT ![t] = "ended"]
    /\ UNCHANGED <<subprocess_listener_socket, sockets_made, shut, listener_sock,
                   stop_calls, stop_raised, blocked_at_stop>>
    /\ UNCHANGED <<handshakeVars, besides>>

\* accept() returns a connection and _handle_subprocess serves it (lines
\* 94-98); the thread goes back to the test of the loop.
_subprocess_listener_accept(t, d) ==
    /\ Accepting(t)
    /\ _handle_subprocess(d)
    /\ listener_pc' = [listener_pc EXCEPT ![t] = "check"]
    /\ UNCHANGED <<subprocess_listener_socket, sockets_made, shut, listener_sock,
                   stop_calls, stop_raised, blocked_at_stop>>
    /\ UNCHANGED besides

(* ---------------------------- specification ---------------------------- *)

HandshakeInit ==
    /\ root_start_request = None
    /\ subprocess_queue = <<>>
    /\ unfinished_tasks = 0
    /\ pc = [d \in Desc |-> "idle"]
    /\ request = [d \in Desc |-> NoRequest]
    /\ response = [d \in Desc |-> FALSE]
    /\ reply = [d \in Desc |-> <<>>]
    /\ gets = [d \in Desc |-> 0]
    /\ doneCalls = [d \in Desc |-> 0]
    /\ putOrder = <<>>

\* listen_for_subprocesses has not been called.
NoListener ==
    /\ sockets_made = 0
    /\ shut = {}
    /\ listener_pc = [t \in Threads |-> "unborn"]
    /\ listener_sock = [t \in Threads |-> 0]
    /\ stop_calls = 0
    /\ stop_raised = FALSE
    /\ blocked_at_stop = {}

\* The root process with its listener started.
RootProcess ==
    /\ os_getpid = RootPid
    /\ options_subprocess_notify = <<>>
    /\ options_subprocess_of = <<>>
    /\ subprocess_listener_socket = <<ListenerPort>>
    /\ sockets_made = 1
    /\ shut = {}
    /\ listener_pc = [t \in Threads |-> IF t = 1 THEN "accepting" ELSE "unborn"]
    /\ listener_sock = [t \in Threads |-> IF t = 1 THEN ListenerPort ELSE 0]
    /\ stop_calls = 0
    /\ stop_raised = FALSE
    /\ blocked_at_stop = {}

\* A descendant that was launched with --subprocess-of and --subprocess-notify.
DescendantProcess ==
    /\ os_getpid \in Desc
    /\ options_subprocess_notify = <<ListenerPort>>
    /\ options_subprocess_of \in {<<p>> : p \in {RootPid} \cup (Desc \ {os_getpid})}
    /\ subprocess_listener_socket = <<>>
    /\ NoListener

\* patch_args has not been called.
PatchIdle ==
    /\ heap = [caller |-> <<>>, copy |-> <<>>]
    /\ args = "caller"
    /\ i = 0
    /\ expect_value = FALSE
    /\ patch_pc = "idle"
    /\ roles = <<>>

\* notify_root has not been called.
NotifyIdle ==
    /\ notify_pc = "idle"
    /\ notify_port = 0
    /\ sent_request = <<>>
    /\ notify_response = <<>>
    /\ global_debugger = FALSE
    /\ debugger = FALSE
    /\ polled = FALSE
    /\ ready_to_run = FALSE
    /\ exit_status = <<>>
    /\ stderr_report = FALSE
    /\ failure = "none"
    /\ incoming_response = <<>>
    /\ connection_lost = FALSE

Init == HandshakeInit /\ RootProcess /\ PatchIdle /\ NotifyIdle

Next ==
    \/ SetRootStartRequest
    \/ \E d \in Desc : Accept(d)
    \/ \E d \in Desc : ptvsd_subprocess_request_put(d)
    \/ \E d \in Desc : ptvsd_subprocess_request_join(d)
    \/ \E d \in Desc : Close(d)
    \/ Get
    \/ \E d \in Desc : Decide(d)
    \/ \E d \in Desc : TaskDone(d)
    \/ \E d \in Desc : SurplusTaskDone(d)

Spec == Init /\ [][Next]_vars

\* Tokens of the command lines given to patch_args.
Tokens ==
    {"-", "-c", "-m", "-Q", "-RW", "-Qold", "-Rv", "--check-hash-based-pycs",
     "--version", "script.py", "warn", "app"}

CommandLines ==
    {<<"py">> \o t : t \in UNION {[1 .. n -> Tokens] : n \in 0 .. MaxArgs}}

\* patch_args is called with some command line, in the root or in a descendant.
PatchInit ==
    /\ HandshakeInit
    /\ NotifyIdle
    /\ RootProcess \/ (DescendantProcess /\ os_getpid = 1 /\ options_subprocess_of = <<RootPid>>)
    /\ \E a \in CommandLines : heap = [caller |-> a, copy |-> <<>>]
    /\ args = "caller"
    /\ i = 0
    /\ expect_value = FALSE
    /\ patch_pc = "start"
    /\ roles = <<>>

PatchNext ==
    \/ patch_args_start
    \/ patch_args_scan
    \/ patch_args_target

PatchSpec == PatchInit /\ [][PatchNext]_vars

\* Ports a descendant may pass to notify_root.
NotifyPorts == {0, 5678}

\* notify_root is called in a descendant, before or after pydevd created
\* its debugger.
NotifyInit ==
    /\ HandshakeInit
    /\ PatchIdle
    /\ DescendantProcess
    /\ notify_pc = "start"
    /\ notify_port \in NotifyPorts
    /\ sent_request = <<>>
    /\ notify_response = <<>>
    /\ global_debugger \in BOOLEAN
    /\ debugger = FALSE
    /\ polled = FALSE
    /\ ready_to_run = FALSE
    /\ exit_status = <<>>
    /\ stderr_report = FALSE
    /\ failure = "none"
    /\ incoming_response = <<>>
    /\ connection_lost = FALSE

NotifyNext ==
    \/ notify_root_connect
    \/ notify_root_send
    \/ RootReplies
    \/ ConnectionLost
    \/ notify_root_wait
    \/ notify_root_check
    \/ notify_root_poll
    \/ DebuggerCreated

NotifySpec == NotifyInit /\ [][NotifyNext]_vars

\* The threads of the descendant run when they can, and pydevd creates its
\* debugger; nothing makes the root answer or the connection drop.
NotifyFairSpec ==
    /\ NotifySpec
    /\ WF_vars(notify_root_connect)
    /\ WF_vars(notify_root_send)
    /\ WF_vars(notify_root_wait)
    /\ WF_vars(notify_root_check)
    /\ WF_vars(notify_root_poll)
    /\ WF_vars(DebuggerCreated)

\* Threads that can run are eventually run, and the consumer keeps taking
\* entries and marks each of them done; nothing stronger is promised to a
\* thread that waits on the queue's condition variable.
FairSpec ==
    /\ Spec
    /\ WF_vars(Get)
    /\ \A d \in Desc : WF_vars(TaskDone(d))
    /\ \A d \in Desc : WF_vars(ptvsd_subprocess_request_put(d))
    /\ \A d \in Desc : WF_vars(ptvsd_subprocess_request_join(d))

\* The root process after the import of the module: no listener yet.
ListenerInit ==
    /\ HandshakeInit
    /\ NotifyIdle
    /\ PatchIdle
    /\ os_getpid = RootPid
    /\ options_subprocess_notify = <<>>
    /\ options_subprocess_of = <<>>
    /\ subprocess_listener_socket = <<>>
    /\ NoListener

\* The listener is started and stopped while its threads run.
LifecycleNext ==
    \/ listen_for_subprocesses
    \/ stop_listening_for_subprocesses
    \/ \E t \in Threads : _subprocess_listener_while(t)
    \/ \E t \in Threads : _subprocess_listener_call(t)
    \/ \E t \in Threads : _subprocess_listener_break(t)

\* The listener is started and stopped while descendants connect.
ListenerNext ==
    \/ LifecycleNext
    \/ \E t \in Threads : \E d \in Desc : _subprocess_listener_accept(t, d)

ListenerSpec == ListenerInit /\ [][ListenerNext]_vars

\* Command lines that patch_args patches.
LaunchCommandLines == {<<"py", "script.py">>, <<"py", "-m", "app">>}

\* The root process with its listener started and a patch_args call still
\* to come.
RootPatchInit ==
    /\ HandshakeInit
    /\ NotifyIdle
    /\ RootProcess
    /\ \E a \in LaunchCommandLines : heap = [caller |-> a, copy |-> <<>>]
    /\ args = "caller"
    /\ i = 0
    /\ expect_value = FALSE
    /\ patch_pc = "start"
    /\ roles = <<>>

\* The listener is started and stopped, and a command line is patched at
\* some time.
RootPatchNext ==
    \/ LifecycleNext
    \/ PatchNext

RootPatchSpec == RootPatchInit /\ [][RootPatchNext]_vars

\* The handshakes of Spec with the listener being stopped at some time.
StopNext ==
    \/ Next
    \/ stop_listening_for_subprocesses
    \/ \E t \in Threads : _subprocess_listener_break(t)

StopSpec == Init /\ [][StopNext]_vars

(* ------------------------------ properties ----------------------------- *)

TypeOK ==
    /\ unfinished_tasks \in 0 .. NumDesc
    /\ \A d \in Desc : pc[d] \in {"idle", "accepted", "joining", "replied"}

\* The consumer has called task_done() at most once per entry it got.
Honest == SurplusCalls = 0

\* How many entries of the queue belong to connection d.
Queued(d) ==
    Cardinality({k \in 1 .. Len(subprocess_queue) :
                    subprocess_queue[k].response = d})

\* C1: with a consumer that calls task_done() at most once per entry it got,
\* a reply is sent only for an announcement whose entry the consumer has
\* dequeued and marked done.
ReplyOnlyAfterDone ==
    Honest => \A d \in Desc :
                 pc[d] = "replied" => (gets[d] >= 1 /\ doneCalls[d] >= 1)

\* C1 witness: a reply went out while another descendant's handshake was
\* in flight at the same time, with a contract-abiding consumer.
ReplyOnlyAfterDoneWitness ==
    /\ Honest
    /\ \E a, b \in Desc :
          /\ a # b
          /\ pc[a] = "replied"
          /\ pc[b] \in {"joining", "replied"}
          /\ doneCalls[b] = 1

\* C2: once the consumer has marked the entry of a descendant done, that
\* descendant's handler can return and reply, whatever the state of the
\* entries of other descendants.
IsolatedRelease ==
    \A d \in Desc :
        (Honest /\ pc[d] = "joining" /\ gets[d] = 1 /\ doneCalls[d] = 1)
            => ENABLED ptvsd_subprocess_request_join(d)

\* C3: with a consumer that keeps its contract, every announcement that was
\* put in the queue is eventually replied to.
EveryAnnouncementAnswered ==
    ([]Honest) => \A d \in Desc : (pc[d] = "joining") ~> (pc[d] = "replied")

\* C4: each get() hands out the entry that was put first among those not yet
\* handed out, and every entry put is either still queued or was handed out
\* exactly once.
FifoDelivery ==
    /\ [][\A d \in Desc :
            gets'[d] > gets[d] => (putOrder # <<>> /\ d = Head(putOrder))]_vars
    /\ [](\A d \in Desc :
            Queued(d) + gets[d] = (IF pc[d] \in {"joining", "replied"} THEN 1 ELSE 0))

\* C4 witness: three entries were queued, and the first of them has been
\* handed out while the two put after it still wait in the queue.
FifoDeliveryWitness ==
    /\ Len(subprocess_queue) = 2
    /\ \E d \in Desc : gets[d] = 1 /\ doneCalls[d] = 0 /\ pc[d] = "joining"

\* C5: the entry put for a request has the request's parentProcessId,
\* processId and port, the root's own process id as rootProcessId and the
\* current root_start_request as rootStartRequest, whatever the sender put
\* in those two fields.
Enrichment ==
    [][\A d \in Desc :
         (pc[d] = "accepted" /\ pc'[d] = "joining") =>
            /\ Len(subprocess_queue') = Len(subprocess_queue) + 1
            /\ subprocess_queue'[Len(subprocess_queue')].arguments =
                  [parentProcessId |-> request[d].parentProcessId,
                   processId |-> request[d].processId,
                   port |-> request[d].port,
                   rootProcessId |-> os_getpid,
                   rootStartRequest |-> root_start_request]]_vars

\* C5 witness: the queue holds the entries of two descendants at once, one
\* of them from the request without a port that carried its own
\* rootProcessId and rootStartRequest, put after root_start_request was set.
EnrichmentWitness ==
    /\ Len(subprocess_queue) >= 2
    /\ \E k \in 1 .. Len(subprocess_queue) :
          /\ subprocess_queue[k].arguments.port = 0
          /\ subprocess_queue[k].arguments.rootProcessId = os_getpid
          /\ subprocess_queue[k].arguments.rootStartRequest = "launch"

\* C16: with a consumer that calls task_done() at most once per entry it got,
\* the reply of a connection carries the incomingConnection value that stands
\* in that connection's own response dict; the dict is false when it is put
\* on the queue and changes only while the consumer holds that connection's
\* entry and has not marked it done.
ReplyCarriesDecision ==
    /\ [](Honest => \A d \in Desc :
                        pc[d] = "replied" => reply[d] = <<response[d]>>)
    /\ [][\A d \in Desc :
             /\ (pc[d] = "accepted" /\ pc'[d] = "joining") => ~ response'[d]
             /\ response'[d] # response[d] =>
                   \/ gets[d] >= 1 /\ doneCalls[d] = 0
                   \/ pc'[d] = "idle"]_vars

\* C16 witness: two connections were answered, one with true and one with
\* false, by a consumer that marked each entry done once.
ReplyCarriesDecisionWitness ==
    /\ Honest
    /\ \E a, b \in Desc :
          /\ pc[a] = "replied" /\ doneCalls[a] = 1 /\ reply[a] = <<TRUE>>
          /\ pc[b] = "replied" /\ doneCalls[b] = 1 /\ reply[b] = <<FALSE>>

\* C17: a reply is sent only for an announcement whose entry the consumer has
\* dequeued and marked done, whatever the consumer did with the entries of
\* the other announcements.
MiscountConfined ==
    \A d \in Desc : pc[d] = "replied" => (gets[d] >= 1 /\ doneCalls[d] >= 1)

(* ------------------------ properties of patch_args --------------------- *)

\* The command line as the caller passed it, and the list patch_args returns.
Caller == heap["caller"]

Returned == heap[args]

\* A block of single-character switches.
IsShortBlock(tok) ==
    /\ StartsWith(tok, "-")
    /\ ~ StartsWith(tok, "--")
    /\ tok \notin {"-", "-c", "-m"}

\* Where the value-taking switch letters stand in a token.
ValueLetters(tok) == {k \in 1 .. Len(tok) : SubSeq(tok, k, k) \in {"Q", "W", "X"}}

\* A block whose only value-taking switch is its last character.
OpenValueSwitch(tok) == IsShortBlock(tok) /\ ValueLetters(tok) = {Len(tok)}

\* The returned list is the caller's with n tokens, the first of them
\* "-m" "ptvsd", put in right before the caller's token t.
InjectedBefore(t, n) ==
    /\ Len(Returned) = Len(Caller) + n
    /\ SubSeq(Returned, 1, t - 1) = SubSeq(Caller, 1, t - 1)
    /\ SubSeq(Returned, t + n, Len(Returned)) = SubSeq(Caller, t, Len(Caller))
    /\ Returned[t] = "-m"
    /\ Returned[t + 1] = "ptvsd"

\* C6: a token that the scan takes for a block of switches ending in Q, W or
\* X makes the scan take the next token for that switch's value (or for the
\* stdin marker), never for the target; "py -Q warn -m app" is patched
\* right before "-m".
SplitValueConsumed ==
    /\ \A k \in 2 .. Len(roles) - 1 :
          (roles[k] = "switch" /\ OpenValueSwitch(Caller[k]))
             => roles[k + 1] = (IF Caller[k + 1] = "-" THEN "stdin" ELSE "value")
    /\ (patch_pc = "returned" /\ Caller = <<"py", "-Q", "warn", "-m", "app">>)
          => InjectedBefore(4, Len(Returned) - Len(Caller))

\* C7 as claimed: a patch puts 14 tokens in right before the target, leaves
\* every other token as it was, and leaves the caller's list alone.
FrameOfPatch14 ==
    /\ [][heap'["caller"] = heap["caller"]]_vars
    /\ []((patch_pc = "returned" /\ Returned # Caller) =>
            \E t \in 2 .. Len(Caller) :
                roles[t] = "target" /\ Returned[1] = Caller[1] /\ InjectedBefore(t, 14))

\* C7 amended: a patch puts 12 tokens in right before the target, leaves
\* every other token as it was, and leaves the caller's list alone.
FrameOfPatch ==
    /\ [][heap'["caller"] = heap["caller"]]_vars
    /\ []((patch_pc = "returned" /\ Returned # Caller) =>
            \E t \in 2 .. Len(Caller) :
                roles[t] = "target" /\ Returned[1] = Caller[1] /\ InjectedBefore(t, 12))

\* C7 witness: a command line was patched whose target has switches before
\* it and arguments after it.
FrameOfPatchWitness ==
    /\ patch_pc = "returned"
    /\ Returned # Caller
    /\ \E t \in 3 .. Len(Caller) - 1 : Len(roles) = t /\ roles[t] = "target"

\* C8: the token after a block of switches without Q, W and X that the scan
\* took for switches is never taken for a value; when it is "-m" or "-c" it
\* is taken for the target and the command line is patched right before it,
\* whatever follows.
CombinedSwitches ==
    \A k \in 2 .. Len(roles) :
        (/\ roles[k] = "switch"
         /\ IsShortBlock(Caller[k])
         /\ ValueLetters(Caller[k]) = {})
        => /\ Len(roles) >= k + 1 => roles[k + 1] # "value"
           /\ (k + 1 <= Len(Caller) /\ Caller[k + 1] \in {"-m", "-c"}) =>
                 /\ Len(roles) >= k + 1 => roles[k + 1] = "target"
                 /\ patch_pc = "returned" =>
                       InjectedBefore(k + 1, Len(Returned) - Len(Caller))
                 /\ patch_pc = "returned" => Len(Returned) > Len(Caller)

\* C8 witness: "-c" followed by something that is no .py file was patched
\* after a combined block that stood behind another switch.
CombinedSwitchesWitness ==
    /\ patch_pc = "returned"
    /\ Len(Caller) = 5
    /\ Len(roles) = 4
    /\ roles[3] = "switch"
    /\ Caller[3] = "-Rv"
    /\ Caller[4] = "-c"
    /\ Caller[5] = "app"
    /\ Len(Returned) > Len(Caller)

\* C9: patch_args returns the command line as it got it when the scan met
\* "-", when it found no target, and when the target is a filename that does
\* not end in ".py".
UnsupportedUnchanged ==
    (/\ patch_pc = "returned"
     /\ \/ \E k \in 2 .. Len(roles) : Caller[k] = "-"
        \/ \A k \in 1 .. Len(roles) : roles[k] # "target"
        \/ \E k \in 1 .. Len(roles) :
              /\ roles[k] = "target"
              /\ ~ StartsWith(Caller[k], "-")
              /\ ~ EndsWith(Caller[k], ".py"))
    => Returned = Caller

\* C9 witness: the scan met "-" where it expected the value of a switch.
UnsupportedUnchangedWitness ==
    /\ patch_pc = "returned"
    /\ expect_value
    /\ Len(roles) >= 3
    /\ Caller[Len(roles)] = "-"
    /\ Returned = Caller

\* A block in which something follows the first value-taking switch.
AttachedValueSwitch(tok) ==
    /\ IsShortBlock(tok)
    /\ \E k \in ValueLetters(tok) : k < Len(tok)

\* C15: the token after a block of switches in which the value of Q, W or X
\* is attached ("-Qold") is never taken for that switch's value; when it is
\* a ".py" filename, "-m" or "-c" it is taken for the target and the command
\* line is patched right before it.
AttachedValueNotConsumed ==
    \A k \in 2 .. Len(roles) :
        (roles[k] = "switch" /\ AttachedValueSwitch(Caller[k]))
        => /\ Len(roles) >= k + 1 => roles[k + 1] # "value"
           /\ (/\ k + 1 <= Len(Caller)
               /\ \/ Caller[k + 1] \in {"-m", "-c"}
                  \/ EndsWith(Caller[k + 1], ".py") /\ ~ StartsWith(Caller[k + 1], "-"))
              => /\ Len(roles) >= k + 1 => roles[k + 1] = "target"
                 /\ patch_pc = "returned" =>
                       /\ Len(Returned) > Len(Caller)
                       /\ InjectedBefore(k + 1, Len(Returned) - Len(Caller))

\* A string of decimal digits.
IsNumber(str) ==
    /\ Len(str) > 0
    /\ \A k \in 1 .. Len(str) :
          SubSeq(str, k, k) \in {"0", "1", "2", "3", "4", "5", "6", "7", "8", "9"}

\* C13: in a patched command line "--subprocess-of" is followed by this
\* process's id and "--subprocess-notify" by a port number: the configured
\* options.subprocess_notify if there is one, else the port of a listener
\* socket of this process, however often the listener was stopped and
\* started before.
LinkageIsPort ==
    (patch_pc = "returned" /\ Returned # Caller) =>
        \E t \in 2 .. Len(Caller) :
            /\ Len(roles) = t
            /\ roles[t] = "target"
            /\ Returned[t + 8] = "--subprocess-of"
            /\ Returned[t + 9] = IntToStr(os_getpid)
            /\ Returned[t + 10] = "--subprocess-notify"
            /\ IsNumber(Returned[t + 11])
            /\ IF options_subprocess_notify # <<>>
                 THEN Returned[t + 11] = IntToStr(options_subprocess_notify[1])
                 ELSE \E n \in 1 .. sockets_made :
                         Returned[t + 11] = IntToStr(PortOfSocket(n))

(* ----------------------- properties of notify_root --------------------- *)

\* C10: whenever connecting failed or the connection was lost before the
\* response arrived, notify_root has reported it and ended the process with
\* exit status 0, and the debugger was not told to run.
FailOpen ==
    failure # "none" =>
        /\ notify_pc = "exited"
        /\ exit_status = <<0>>
        /\ stderr_report
        /\ ~ ready_to_run

\* C11: the debugger is told to run only after a response whose
\* incomingConnection is false and only once the global debugger exists;
\* after a response whose incomingConnection is true notify_root neither
\* tells the debugger to run nor asks for the global debugger.
ProceedOnlyWhenNotIncoming ==
    /\ ready_to_run => (notify_response = <<FALSE>> /\ global_debugger /\ polled)
    /\ notify_response = <<TRUE>> => (~ ready_to_run /\ ~ polled /\ ~ debugger)

\* notify_root returned after the root answered false, and told the debugger
\* to run.
ProceedOnlyWhenNotIncomingWitness ==
    /\ notify_pc = "done"
    /\ notify_response = <<FALSE>>
    /\ ready_to_run

\* C19: once notify_root has sent its request it returns or exits the
\* process; after a response whose incomingConnection is false it returns
\* having told the debugger to run, and ready_to_run is set once, when the
\* loop has seen a debugger.
NotifierFinishes ==
    /\ (notify_pc = "waiting") ~> (notify_pc \in {"done", "exited"})
    /\ [](notify_pc = "done" /\ notify_response = <<FALSE>> => ready_to_run)
    /\ [][ready_to_run' # ready_to_run =>
             ~ ready_to_run /\ notify_pc = "polling" /\ debugger]_vars

(* ----------------------- properties of the listener -------------------- *)

\* Everything but the record of the stop calls.
exceptStopRecord ==
    <<handshakeVars, patchVars, notifyVars, os_getpid, options_subprocess_notify,
      options_subprocess_of, subprocess_listener_socket, sockets_made, shut,
      listener_pc, listener_sock, stop_raised>>

\* C12: a call of stop_listening_for_subprocesses does not raise and leaves
\* no listener socket, so that subprocess_listener_port() is None; a call
\* that finds no listener socket, as every call after the first of several
\* in a row does, changes nothing.
StopIdempotent ==
    [][stop_calls' = stop_calls + 1 =>
          /\ ~ stop_raised'
          /\ subprocess_listener_socket' = <<>>
          /\ subprocess_listener_port' = <<>>
          /\ subprocess_listener_socket = <<>> => UNCHANGED exceptStopRecord]_vars

\* C12 witness: stop was called twice in a row after a start, and the
\* shutdown of the socket had failed.
StopIdempotentWitness ==
    /\ stop_calls = 2
    /\ sockets_made >= 1
    /\ subprocess_listener_socket = <<>>
    /\ PortOfSocket(sockets_made) \notin shut

\* C14: a listener thread accepts only on the socket of the
\* listen_for_subprocesses call that started it, so that it is done with
\* accepting once that socket was stopped, and no two listener threads
\* accept on one socket.
OneLoopPerSocket ==
    /\ \A t \in Threads :
          listener_pc[t] = "accepting" => listener_sock[t] = PortOfSocket(t)
    /\ \A t, u \in Threads :
          (/\ t # u
           /\ listener_pc[t] = "accepting"
           /\ listener_pc[u] = "accepting") => listener_sock[t] # listener_sock[u]

\* C18: a call of stop_listening_for_subprocesses changes neither the queue
\* nor a response dict nor the position of a handler; with a consumer that
\* calls task_done() at most once per entry it got, a handler that was in
\* join() at the time of the call replies only after its entry was marked
\* done, and can reply once its entry was marked done.
StopKeepsHandshakes ==
    /\ [][stop_calls' = stop_calls + 1 => UNCHANGED handshakeVars]_vars
    /\ [](Honest => \A d \in blocked_at_stop :
                /\ pc[d] = "replied" => doneCalls[d] >= 1
                /\ (pc[d] = "joining" /\ doneCalls[d] >= 1)
                      => ENABLED ptvsd_subprocess_request_join(d))
====
